---- MODULE Spec2Model ----
(***************************************************************************)
(* The LLaVA-Med gateway: main.py (generate, chat) and llava_med_api.py    *)
(* (generate with translation, stream_generator).  One request is          *)
(* followed from its arrival to the response the client sees.  Text is a   *)
(* sequence of one-character strings, so that strip, rfind, endswith and   *)
(* replace are computed as Python computes them.                           *)
(***************************************************************************)
EXTENDS Integers, Sequences, FiniteSets, TLC

\* ------------------------------------------------------------------ bounds
MaxLines == 3      \* lines of a worker body / of a relayed stream
MaxPieces == 3     \* NUL-delimited pieces of a body read by aiter_bytes
MaxImages == 2     \* uploads of one chat request

\* ------------------------------------------------------- Python str model
Whitespace == {" ", "\n", "\t"}

RECURSIVE LStrip(_)
LStrip(s) == IF s # <<>> /\ Head(s) \in Whitespace THEN LStrip(Tail(s)) ELSE s

RECURSIVE RStrip(_)
RStrip(s) ==
    IF s # <<>> /\ s[Len(s)] \in Whitespace THEN RStrip(SubSeq(s, 1, Len(s) - 1)) ELSE s

\* str.strip()
Strip(s) == LStrip(RStrip(s))

RECURSIVE RStripChar(_, _)
\* str.rstrip(ch)
RStripChar(s, ch) ==
    IF s # <<>> /\ s[Len(s)] = ch THEN RStripChar(SubSeq(s, 1, Len(s) - 1), ch) ELSE s

RECURSIVE Join(_)
\* "".join(parts)
Join(parts) == IF parts = <<>> THEN <<>> ELSE Head(parts) \o Join(Tail(parts))

\* s[i:i+len(sub)] == sub, i counted from 0 as in Python
MatchAt(s, sub, i) ==
    /\ i >= 0
    /\ i + Len(sub) <= Len(s)
    /\ SubSeq(s, i + 1, i + Len(sub)) = sub

\* str.rfind(sub): the highest index of an occurrence, or -1
RFind(s, sub) ==
    LET hits == {i \in 0..Len(s) : MatchAt(s, sub, i)}
    IN  IF hits = {} THEN -1 ELSE CHOOSE i \in hits : \A j \in hits : j <= i

\* str.find(sub)
Find(s, sub) ==
    LET hits == {i \in 0..Len(s) : MatchAt(s, sub, i)}
    IN  IF hits = {} THEN -1 ELSE CHOOSE i \in hits : \A j \in hits : i <= j

\* str.endswith(suf)
EndsWith(s, suf) == MatchAt(s, suf, Len(s) - Len(suf))

RECURSIVE Remove(_, _)
\* str.replace(old, ""), old non-empty: every non-overlapping occurrence, left to right
Remove(s, old) ==
    LET i == Find(s, old)
    IN  IF i = -1 THEN s
        ELSE SubSeq(s, 1, i) \o Remove(SubSeq(s, i + Len(old) + 1, Len(s)), old)

\* s[k:]
From(s, k) == SubSeq(s, k + 1, Len(s))

\* s[:-k]
DropLast(s, k) == SubSeq(s, 1, Len(s) - k)

\* --------------------------------------------------------------- literals
InstMarker == <<"[", "/", "I", "N", "S", "T", "]">>
InstOpen == <<"[", "I", "N", "S", "T", "]", " ", "<", "i", "m", "a", "g", "e", ">", "\n">>
ErrorCodeSuffix ==
    <<"\"", ",", " ", "\"", "e", "r", "r", "o", "r", "_", "c", "o", "d", "e", "\"", ":", " ", "0", "}">>
Quote == "\""
DataPrefix == <<"d", "a", "t", "a", ":", " ">>
ErrorPrefix == <<"E", "r", "r", "o", "r", ":", " ">>
UnknownError == <<"U", "n", "k", "n", "o", "w", "n", " ", "e", "r", "r", "o", "r">>
DoneText == <<"[", "D", "O", "N", "E", "]">>
FrameEnd == <<"\n", "\n">>
NoneText == <<"None">>

\* f"[INST] <image>\n{prompt} [/INST]"
Template(p) == InstOpen \o p \o <<" ">> \o InstMarker

\* f"data: {payload}\n\n"
Frame(payload) == DataPrefix \o payload \o FrameEnd

DoneFrame == Frame(DoneText)

\* ------------------------------------------------------------ worker lines
\* A line (or NUL-delimited piece) of the worker's body, given by what
\* json.loads makes of it:
\*   empty  : the line is "" (a piece: blank after strip)
\*   raw    : not JSON; text holds the raw characters
\*   number : JSON, but a number
\*   object : a JSON object; has_code/has_text say which keys it has,
\*            text_type is "str" or "int" (a text that is not a string),
\*            text holds the characters of the value
Line(kind, has_code, code, has_text, text_type, text) ==
    [kind |-> kind, has_code |-> has_code, code |-> code,
     has_text |-> has_text, text_type |-> text_type, text |-> text]

TextFragment(text) == Line("object", TRUE, 0, TRUE, "str", text)
ErrorFragment(code, text) == Line("object", TRUE, code, TRUE, "str", text)
RawLine(text) == Line("raw", FALSE, 0, FALSE, "str", text)

EmptyLine == Line("empty", FALSE, 0, FALSE, "str", <<>>)
NumberLine == Line("number", FALSE, 0, FALSE, "str", <<>>)
NoTextFragment == Line("object", TRUE, 0, FALSE, "str", <<>>)
NoTextError == Line("object", TRUE, 1, FALSE, "str", <<>>)
NoCodeFragment == Line("object", FALSE, 0, TRUE, "str", <<"x">>)
IntTextFragment == Line("object", TRUE, 0, TRUE, "int", <<"5">>)

PromptPool == {<<"q">>}

\* the lines a worker may send to the line-oriented readers
LinePool ==
    { TextFragment(<<"h", "i">>),
      TextFragment(<<" ", "a", " ">>),
      TextFragment(<<>>),
      TextFragment(Template(<<"q">>) \o <<" ", "o", "k">>),
      TextFragment(Template(<<"q">>)),
      TextFragment(DoneText),
      ErrorFragment(1, <<"E">>),
      NoTextFragment,
      NoTextError,
      NoCodeFragment,
      IntTextFragment,
      RawLine(<<" ", "r", " ">>),
      RawLine(<<"r">> \o ErrorCodeSuffix),
      NumberLine,
      EmptyLine }

\* the pieces of a chunk read by the final-chunk reader
PiecePool ==
    { TextFragment(<<"h", "i">>),
      TextFragment(Template(<<"q">>) \o <<" ", "o", "k">>),
      TextFragment(Template(<<"q">>)),
      TextFragment(<<>>),
      ErrorFragment(1, <<"E">>),
      NoTextFragment,
      RawLine(<<"r">>),
      EmptyLine }

RECURSIVE SeqsUpTo(_, _)
\* all sequences over S of length at most n
SeqsUpTo(S, n) ==
    IF n = 0 THEN {<<>>}
    ELSE LET shorter == SeqsUpTo(S, n - 1)
         IN  shorter \cup {Append(q, x) : q \in {r \in shorter : Len(r) = n - 1}, x \in S}

Bodies == SeqsUpTo(LinePool, MaxLines)

RECURSIVE ChunkSeqs(_)
\* all ways the worker's body may arrive: sequences of chunks of at least one
\* piece each, of at most n pieces together
ChunkSeqs(n) ==
    {<<>>} \cup
    UNION {{<<chunk>> \o rest : chunk \in {c \in SeqsUpTo(PiecePool, k) : Len(c) = k},
                                rest \in ChunkSeqs(n - k)} : k \in 1..n}

ChunkBodies == ChunkSeqs(MaxPieces)

\* -------------------------------------------------------------- exceptions
\* the classes an exception type is an instance of, besides Exception
Bases(type) ==
    CASE type \in {"ConnectError", "ReadError"} ->
            {type, "NetworkError", "TransportError", "RequestError", "HTTPError"}
      [] type \in {"ConnectTimeout", "ReadTimeout"} ->
            {type, "TimeoutException", "TransportError", "RequestError", "HTTPError"}
      [] type = "HTTPStatusError" -> {type, "HTTPError"}
      [] OTHER -> {type}

NoException == [type |-> "", status_code |-> 0, detail |-> ""]
Raise(type) == [type |-> type, status_code |-> 0, detail |-> ""]
HTTPException(status_code, detail) ==
    [type |-> "HTTPException", status_code |-> status_code, detail |-> detail]

NoResponse == [status |-> 0, detail |-> "", generated_text |-> <<>>]
Success(text) == [status |-> 200, detail |-> "", generated_text |-> text]
Failure(e) == [status |-> e.status_code, detail |-> e.detail, generated_text |-> <<>>]

\* ---------------------------------------------------------------- decoders
\* AggregateLine without the test for the error_code key: any object with a
\* string text is appended, as the final-chunk loop of generate does
AggregateLine_NoCodeCheck(line) ==
    CASE line.kind = "empty" -> <<>>
      [] line.kind = "raw" -> <<Strip(line.text)>>
      [] line.kind = "number" -> <<>>
      [] OTHER ->
            IF line.has_text /\ line.text_type = "str" /\ (~line.has_code \/ line.code = 0)
            THEN <<Strip(line.text)>>
            ELSE <<>>

\* main.py, the body of the line loop of generate and of chat: what one line
\* appends to full_response
AggregateLine(line) ==
    CASE line.kind = "empty" -> <<>>                       \* if line: is false
      [] line.kind = "raw" -> <<Strip(line.text)>>          \* JSONDecodeError
      [] line.kind = "number" -> <<>>                       \* TypeError, caught
      [] OTHER ->
            IF line.has_code
            THEN IF line.code = 0
                 THEN IF line.has_text
                      THEN IF line.text_type = "str"
                           THEN <<Strip(line.text)>>
                           ELSE <<>>                        \* AttributeError, caught
                      ELSE <<>>
                 ELSE <<>>
            ELSE <<>>

\* RelayLine with the JSONDecodeError branch only logging the line, as the
\* final-chunk loop of generate does
RelayLine_RawOnlyLogged(line) ==
    CASE line.kind = "empty" -> <<>>
      [] line.kind = "raw" -> <<>>
      [] line.kind = "number" -> <<>>
      [] OTHER ->
            IF line.has_code
            THEN IF line.code = 0 /\ line.has_text
                 THEN <<[site |-> "text", data |-> Frame(line.text)]>>
                 ELSE <<[site |-> "error",
                         data |-> Frame(ErrorPrefix \o
                                        (IF line.has_text THEN line.text ELSE UnknownError))]>>
            ELSE <<>>

\* llava_med_api.py stream_generator, the body of the line loop: the frames
\* one line yields, each with the yield statement (site) it comes from
RelayLine(line) ==
    CASE line.kind = "empty" -> <<>>
      [] line.kind = "raw" -> <<[site |-> "raw", data |-> Frame(Strip(line.text))]>>
      [] line.kind = "number" -> <<>>
      [] OTHER ->
            IF line.has_code
            THEN IF line.code = 0 /\ line.has_text
                 THEN <<[site |-> "text", data |-> Frame(line.text)]>>
                 ELSE <<[site |-> "error",
                         data |-> Frame(ErrorPrefix \o
                                        (IF line.has_text THEN line.text ELSE UnknownError))]>>
            ELSE <<>>

\* the frames yielded while the loop is at its n-th line
FromLine(yielded, n) ==
    [k \in 1..Len(yielded) |->
        [site |-> yielded[k].site, data |-> yielded[k].data, line |-> n]]

RECURSIVE LastText(_)
\* llava_med_api.py generate, the loop over reversed(json_objects): the text
\* of the last piece that carries one, or the exception that ends the loop
LastText(pieces) ==
    IF pieces = <<>> THEN [kind |-> "none", text |-> <<>>, text_type |-> "str"]
    ELSE LET piece == pieces[Len(pieces)]
             rest == SubSeq(pieces, 1, Len(pieces) - 1)
         IN  CASE piece.kind = "empty" -> LastText(rest)
               [] piece.kind = "raw" -> LastText(rest)
               [] piece.kind = "number" ->
                     [kind |-> "raised", text |-> <<>>, text_type |-> "str"]
               [] OTHER ->
                     IF piece.has_text
                     THEN [kind |-> "found", text |-> piece.text, text_type |-> piece.text_type]
                     ELSE LastText(rest)

\* CleanResponse with find in the place of rfind: the text after the first
\* closing marker is kept
CleanResponse_FirstMarker(complete_response) ==
    LET instruction_end == Find(complete_response, InstMarker)
    IN  IF instruction_end # -1
        THEN Strip(From(complete_response, instruction_end + 7))
        ELSE Strip(complete_response)

\* main.py generate, from the join to the return: the text returned for a
\* non-empty complete_response
CleanResponse(complete_response) ==
    LET suffix_removed ==
            IF EndsWith(complete_response, ErrorCodeSuffix)
            THEN DropLast(complete_response, Len(ErrorCodeSuffix))
            ELSE complete_response
        quotes_removed == RStripChar(suffix_removed, Quote)
        instruction_end == RFind(complete_response, InstMarker)
        generated_text ==
            IF instruction_end # -1
            THEN Strip(From(complete_response, instruction_end + 7))
            ELSE Strip(complete_response)
    IN  generated_text

\* the except clauses that close generate and chat, in their order
EndpointExcept(e) ==
    IF "RequestError" \in Bases(e.type)
    THEN HTTPException(503, "Service unavailable due to network error")
    ELSE IF "TimeoutException" \in Bases(e.type)
         THEN HTTPException(504, "Worker request timed out")
         ELSE HTTPException(500, "An unexpected error occurred")

\* get_worker_address: what the call returns or raises for a registry reply
RegistryReplies ==
    {"address", "status_500", "connect_error", "timeout", "no_address_field", "malformed_body"}

LookupRaises(reply) ==
    CASE reply = "status_500" -> Raise("HTTPStatusError")
      [] reply = "connect_error" -> Raise("ConnectError")
      [] reply = "timeout" -> Raise("ReadTimeout")
      [] reply = "no_address_field" -> Raise("KeyError")
      [] reply = "malformed_body" -> Raise("JSONDecodeError")
      [] OTHER -> NoException

get_worker_address(reply) ==
    LET e == LookupRaises(reply)
    IN  IF e = NoException THEN NoException
        ELSE IF "HTTPError" \in Bases(e.type)
             THEN HTTPException(503, "Failed to get worker address from controller")
             ELSE e

\* client.post / client.stream followed by raise_for_status
WorkerReplies == {"ok", "status_500", "connect_error", "timeout"}

PostRaises(reply) ==
    CASE reply = "status_500" -> Raise("HTTPStatusError")
      [] reply = "connect_error" -> Raise("ConnectError")
      [] reply = "timeout" -> Raise("ReadTimeout")
      [] OTHER -> NoException

ImageOutcomes == {"ok", "bad_image"}
TranslateOutcomes == {"translated", "no_translations", "failure"}

\* translate_text: the first translation of the reply
Translated(text) == <<"@">> \o text

\* ------------------------------------------------------------------- state
VARIABLES
    endpoint,        \* the handler that serves the request
    pc,              \* the step the handler is at
    prompt,          \* the prompt form field
    images_left,     \* uploads not yet passed to process_image
    registry,        \* the registry's reply to the lookup, "none" before it
    located,         \* what get_worker_address raised (NoException: it returned)
    worker,          \* the worker's reply to the request, "none" before it
    body,            \* the lines received from the worker
    pos,             \* the number of lines the line loop has processed
    chunks,          \* the chunks collected by aiter_bytes
    full_response,   \* the parts appended by the line loop
    full_text,       \* the text kept by the final-chunk loop
    frames,          \* the frames stream_generator has yielded
    raised,          \* the exception that left stream_generator
    response,        \* the response the client sees
    trace,           \* the pipeline steps taken, in order
    translation      \* the outcome of translate_text, "none" before the call

vars == <<endpoint, pc, prompt, images_left, registry, located, worker, body, pos,
          chunks, full_response, full_text, frames, raised, response, trace,
          translation>>

Endpoints == {"main.generate", "main.chat", "llava.generate", "llava.stream_generator"}

Init ==
    /\ endpoint \in Endpoints
    /\ pc = CASE endpoint = "main.chat" -> "get_worker_address"
              [] endpoint = "llava.stream_generator" -> "post"
              [] OTHER -> "process_image"
    /\ prompt \in PromptPool
    /\ images_left \in IF endpoint = "main.chat" THEN 0..MaxImages
                       ELSE IF endpoint = "llava.stream_generator" THEN {0} ELSE {1}
    /\ registry = "none"
    /\ located = NoException
    /\ worker = "none"
    /\ body = <<>>
    /\ pos = 0
    /\ chunks = <<>>
    /\ full_response = <<>>
    /\ full_text = <<>>
    /\ frames = <<>>
    /\ raised = NoException
    /\ response = NoResponse
    /\ trace = <<>>
    /\ translation = "none"

\* an exception reaches the except clauses of the endpoint
Fail(e) ==
    /\ response' = Failure(EndpointExcept(e))
    /\ pc' = "done"

\* ------------------------------------------------- steps shared by endpoints
\* await process_image(image), then go on at next
ProcessImage(next) ==
    /\ pc = "process_image"
    /\ trace' = Append(trace, "process_image")
    /\ \E outcome \in ImageOutcomes :
          IF outcome = "ok"
          THEN /\ images_left' = images_left - 1
               /\ pc' = next
               /\ UNCHANGED response
          ELSE /\ Fail(Raise("UnidentifiedImageError"))
               /\ UNCHANGED images_left
    /\ UNCHANGED <<endpoint, translation, prompt, registry, located, worker, body, pos, chunks,
                   full_response, full_text, frames, raised>>

\* Locate with the lookup's failure only logged: the request goes on at next
\* without an address
Locate_FailureIgnored(next) ==
    /\ pc = "get_worker_address"
    /\ trace' = Append(trace, "get_worker_address")
    /\ \E reply \in RegistryReplies :
          /\ registry' = reply
          /\ located' = get_worker_address(reply)
    /\ pc' = next
    /\ UNCHANGED <<endpoint, translation, prompt, images_left, worker, body, pos, chunks,
                   full_response, full_text, frames, raised, response>>

\* await get_worker_address(model_name), then go on at next
Locate(next) ==
    /\ pc = "get_worker_address"
    /\ trace' = Append(trace, "get_worker_address")
    /\ \E reply \in RegistryReplies :
          /\ registry' = reply
          /\ located' = get_worker_address(reply)
          /\ IF located' = NoException
             THEN pc' = next /\ UNCHANGED response
             ELSE Fail(located')
    /\ UNCHANGED <<endpoint, translation, prompt, images_left, worker, body, pos, chunks,
                   full_response, full_text, frames, raised>>

\* build the payload, await client.post(...), raise_for_status()
Post(received) ==
    /\ pc = "post"
    /\ trace' = trace \o <<"build_payload", "worker_post">>
    /\ \E reply \in WorkerReplies :
          /\ worker' = reply
          /\ IF reply = "ok"
             THEN /\ received
                  /\ pc' = "lines"
                  /\ UNCHANGED response
             ELSE /\ Fail(PostRaises(reply))
                  /\ UNCHANGED <<body, chunks>>
    /\ UNCHANGED <<endpoint, translation, prompt, images_left, registry, located, pos,
                   full_response, full_text, frames, raised>>

\* one turn of the line loop of generate and chat
NextLine ==
    /\ pc = "lines"
    /\ pos < Len(body)
    /\ full_response' = full_response \o AggregateLine(body[pos + 1])
    /\ pos' = pos + 1
    /\ UNCHANGED <<endpoint, translation, pc, prompt, images_left, registry, located, worker, body,
                   chunks, full_text, frames, raised, response, trace>>

\* ------------------------------------------------------- main.py generate
generate_process_image ==
    /\ endpoint = "main.generate"
    /\ ProcessImage("get_worker_address")

generate_get_worker_address ==
    /\ endpoint = "main.generate"
    /\ Locate("post")

generate_post ==
    /\ endpoint = "main.generate"
    /\ Post(body' \in Bodies /\ UNCHANGED chunks)

generate_line ==
    /\ endpoint = "main.generate"
    /\ NextLine

generate_return ==
    /\ endpoint = "main.generate"
    /\ pc = "lines"
    /\ pos = Len(body)
    /\ LET complete_response == Join(full_response)
       IN  IF complete_response = <<>>
           THEN Fail(HTTPException(500, "Worker returned empty response"))
           ELSE /\ response' = Success(CleanResponse(complete_response))
                /\ pc' = "done"
    /\ UNCHANGED <<endpoint, translation, prompt, images_left, registry, located, worker, body, pos,
                   chunks, full_response, full_text, frames, raised, trace>>

\* ----------------------------------------------------------- main.py chat
chat_get_worker_address ==
    /\ endpoint = "main.chat"
    /\ Locate(IF images_left > 0 THEN "process_image" ELSE "post")

chat_process_image ==
    /\ endpoint = "main.chat"
    /\ ProcessImage(IF images_left > 1 THEN "process_image" ELSE "post")

chat_post ==
    /\ endpoint = "main.chat"
    /\ Post(body' \in Bodies /\ UNCHANGED chunks)

chat_line ==
    /\ endpoint = "main.chat"
    /\ NextLine

chat_return ==
    /\ endpoint = "main.chat"
    /\ pc = "lines"
    /\ pos = Len(body)
    /\ LET complete_response == Join(full_response)
       IN  IF complete_response = <<>>
           THEN Fail(HTTPException(500, "Worker returned empty response"))
           ELSE /\ response' = Success(complete_response)
                /\ pc' = "done"
    /\ UNCHANGED <<endpoint, translation, prompt, images_left, registry, located, worker, body, pos,
                   chunks, full_response, full_text, frames, raised, trace>>

\* ------------------------------------------------ llava_med_api.py generate
translating_process_image ==
    /\ endpoint = "llava.generate"
    /\ ProcessImage("get_worker_address")

translating_get_worker_address ==
    /\ endpoint = "llava.generate"
    /\ Locate("post")

translating_post ==
    /\ endpoint = "llava.generate"
    /\ Post(chunks' \in ChunkBodies /\ UNCHANGED body)

\* from "if not chunks" to the return
translating_return ==
    /\ endpoint = "llava.generate"
    /\ pc = "lines"
    /\ IF chunks = <<>>
       THEN /\ Fail(HTTPException(500, "Worker returned empty response"))
            /\ UNCHANGED <<full_text, trace, translation>>
       ELSE LET found == LastText(chunks[Len(chunks)])
            IN  /\ full_text' = found.text
                /\ CASE found.kind = "raised" -> Fail(Raise("TypeError")) /\ UNCHANGED <<trace, translation>>
                     [] found.kind = "none" \/ found.text = <<>> ->
                           /\ Fail(HTTPException(500, "No valid text found in worker response"))
                           /\ UNCHANGED <<trace, translation>>
                     [] OTHER ->
                           IF found.text_type # "str"
                           THEN Fail(Raise("AttributeError")) /\ UNCHANGED <<trace, translation>>
                           ELSE LET generated_text ==
                                        Strip(Remove(found.text, Template(prompt)))
                                IN  /\ trace' = Append(trace, "translate_text")
                                    /\ \E outcome \in TranslateOutcomes :
                                          /\ translation' = outcome
                                          /\ CASE outcome = "translated" ->
                                                     /\ response' = Success(Translated(generated_text))
                                                     /\ pc' = "done"
                                               [] outcome = "no_translations" ->
                                                     /\ response' = Success(NoneText)
                                                     /\ pc' = "done"
                                               [] OTHER -> Fail(Raise("GoogleAPICallError"))
    /\ UNCHANGED <<endpoint, prompt, images_left, registry, located, worker, body, pos,
                   chunks, full_response, frames, raised>>

\* --------------------------------------- llava_med_api.py stream_generator
\* client.stream(...) is entered and raise_for_status() called
stream_open ==
    /\ endpoint = "llava.stream_generator"
    /\ pc = "post"
    /\ trace' = Append(trace, "worker_post")
    /\ \E reply \in WorkerReplies :
          /\ worker' = reply
          /\ IF reply = "ok"
             THEN pc' = "lines" /\ UNCHANGED raised
             ELSE pc' = "done" /\ raised' = PostRaises(reply)
    /\ UNCHANGED <<endpoint, translation, prompt, images_left, registry, located, body, pos, chunks,
                   full_response, full_text, frames, response>>

\* aiter_lines delivers a line and the loop body runs on it
stream_line ==
    /\ endpoint = "llava.stream_generator"
    /\ pc = "lines"
    /\ Len(body) < MaxLines
    /\ \E line \in LinePool :
          /\ body' = Append(body, line)
          /\ frames' = frames \o FromLine(RelayLine(line), pos + 1)
    /\ pos' = pos + 1
    /\ UNCHANGED <<endpoint, translation, pc, prompt, images_left, registry, located, worker, chunks,
                   full_response, full_text, raised, response, trace>>

\* aiter_lines is exhausted: the statement after the loop
stream_end ==
    /\ endpoint = "llava.stream_generator"
    /\ pc = "lines"
    /\ frames' = Append(frames, [site |-> "done", data |-> DoneFrame, line |-> 0])
    /\ pc' = "done"
    /\ UNCHANGED <<endpoint, translation, prompt, images_left, registry, located, worker, body, pos,
                   chunks, full_response, full_text, raised, response, trace>>

\* aiter_lines raises: the connection drops or no data comes within the timeout
stream_abort ==
    /\ endpoint = "llava.stream_generator"
    /\ pc = "lines"
    /\ \E type \in {"ReadError", "ReadTimeout"} : raised' = Raise(type)
    /\ pc' = "done"
    /\ UNCHANGED <<endpoint, translation, prompt, images_left, registry, located, worker, body, pos,
                   chunks, full_response, full_text, frames, response, trace>>

\* ------------------------------------------------------------ specification
Next ==
    \/ generate_process_image
    \/ generate_get_worker_address
    \/ generate_post
    \/ generate_line
    \/ generate_return
    \/ chat_get_worker_address
    \/ chat_process_image
    \/ chat_post
    \/ chat_line
    \/ chat_return
    \/ translating_process_image
    \/ translating_get_worker_address
    \/ translating_post
    \/ translating_return
    \/ stream_open
    \/ stream_line
    \/ stream_end
    \/ stream_abort

Spec == Init /\ [][Next]_vars

TypeOK ==
    /\ endpoint \in Endpoints
    /\ pc \in {"process_image", "get_worker_address", "post", "lines", "done"}
    /\ pos \in 0..MaxLines
    /\ response.status \in {0, 200, 500, 503, 504}

\* ------------------------------------------------------------- properties
Aggregating == {"main.generate", "main.chat", "llava.generate"}
LineOriented == {"main.generate", "main.chat"}

Contains(s, sub) == Find(s, sub) # -1

IsText(l) == l.kind = "object" /\ l.has_code /\ l.code = 0 /\ l.has_text
IsAnomaly(l) == l.kind = "object" /\ l.has_code /\ l.code = 0 /\ ~l.has_text
IsError(l) == l.kind = "object" /\ l.has_code /\ l.code # 0
IsRaw(l) == l.kind = "raw"
NotError(l) == ~IsError(l)
NotAnomaly(l) == ~IsAnomaly(l)

\* a fragment with no usable text: an empty line, an error-coded fragment, a
\* fragment without error_code, a success fragment without text or with ""
Unusable(l) ==
    \/ l.kind = "empty"
    \/ /\ l.kind = "object"
       /\ \/ ~l.has_code
          \/ l.code # 0
          \/ ~l.has_text
          \/ l.text = <<>>

\* everything the worker sent, as one sequence of lines or pieces
Received == IF endpoint = "llava.generate" THEN Join(chunks) ELSE body

\* the lines the line loop has been through
Processed == SubSeq(body, 1, pos)

RECURSIVE AggregateAll(_)
AggregateAll(lines) ==
    IF lines = <<>> THEN <<>> ELSE AggregateLine(Head(lines)) \o AggregateAll(Tail(lines))

RECURSIVE Texts(_)
Texts(lines) == IF lines = <<>> THEN <<>> ELSE <<Head(lines).text>> \o Texts(Tail(lines))

FramesOfLine(i) == {k \in DOMAIN frames : frames[k].line = i}

\* C1: when the registry lookup fails with a non-2xx status or a transport
\* failure, the response of generate and chat has status 503.
C1_RegistryFailureGives503 ==
    (/\ pc = "done"
     /\ endpoint \in Aggregating
     /\ registry \in {"status_500", "connect_error", "timeout"})
        => response.status = 503

\* C2: when the request to the worker times out, the response of generate and
\* chat has status 504, not the 503 of other network failures.
C2_WorkerTimeoutGives504 ==
    (/\ pc = "done"
     /\ endpoint \in Aggregating
     /\ worker = "timeout")
        => response.status = 504

\* C3: a worker stream with no usable text fragment makes generate and chat
\* fail with status 500; no success body is returned for it.
C3_NoUsableTextFails ==
    (/\ pc = "done"
     /\ endpoint \in Aggregating
     /\ worker = "ok"
     /\ \A i \in DOMAIN Received : Unusable(Received[i]))
        => response.status = 500

\* C4: when every line is a fragment with error_code 0 and a text, chat
\* returns the concatenation of the texts, unchanged and in arrival order, and
\* generate returns that concatenation without the echoed instruction template.
C4_ConcatenationOfTexts ==
    (/\ pc = "done"
     /\ endpoint \in LineOriented
     /\ worker = "ok"
     /\ \A i \in DOMAIN body : IsText(body[i]) /\ body[i].text_type = "str"
     /\ Join(Texts(body)) # <<>>)
        => /\ response.status = 200
           /\ endpoint = "main.chat" => response.generated_text = Join(Texts(body))
           /\ endpoint = "main.generate" =>
                 response.generated_text = Strip(Remove(Join(Texts(body)), Template(prompt)))

\* C5: the frames of stream_generator end with the sentinel frame
\* data: [DONE], also when the worker stream ends abnormally after a frame
\* has been relayed.
C5_SentinelAlwaysLast ==
    (/\ pc = "done"
     /\ endpoint = "llava.stream_generator"
     /\ worker = "ok"
     /\ frames # <<>>)
        => frames[Len(frames)].data = DoneFrame

\* C6: stream_generator emits frames in the order the lines were decoded: a
\* text, raw or worker-error line has exactly one frame, already emitted when
\* the next line is read, carrying that line's text; frames are never
\* duplicated or reordered; the sentinel is emitted once, on end of input,
\* after every other frame.
C6_FramesInArrivalOrder ==
    endpoint = "llava.stream_generator" =>
        /\ \A i \in 1..Len(body) :
              /\ (IsText(body[i]) \/ IsRaw(body[i]) \/ IsError(body[i]))
                    => Cardinality(FramesOfLine(i)) = 1
              /\ IsText(body[i])
                    => \A k \in FramesOfLine(i) : frames[k].data = Frame(body[i].text)
              /\ IsRaw(body[i])
                    => \A k \in FramesOfLine(i) : frames[k].data = Frame(Strip(body[i].text))
              /\ (IsError(body[i]) /\ body[i].has_text)
                    => \A k \in FramesOfLine(i) :
                          frames[k].data = Frame(ErrorPrefix \o body[i].text)
        /\ \A j, k \in DOMAIN frames :
              j < k => /\ frames[j].site # "done"
                       /\ frames[k].site # "done" => frames[j].line < frames[k].line
        /\ \A k \in DOMAIN frames :
              IF frames[k].site = "done"
              THEN pc = "done" /\ frames[k].data = DoneFrame
              ELSE frames[k].line \in 1..Len(body)
        /\ (pc = "done" /\ worker = "ok" /\ raised = NoException)
              => (frames # <<>> /\ frames[Len(frames)].site = "done")

C6_Witness ==
    /\ endpoint = "llava.stream_generator"
    /\ pc = "done"
    /\ raised = NoException
    /\ Len(frames) >= 4
    /\ \E i, j, k \in DOMAIN frames :
          i < j /\ frames[i].site = "error" /\ frames[j].site = "text"
                /\ k # i /\ k # j /\ frames[k].site = "raw"

\* C7: a non-empty line that is not JSON is never dropped: stream_generator
\* forwards its trimmed text as a frame, and in generate (both variants) and
\* chat its trimmed text is part of the aggregate.
C7_RawLineNeverDropped ==
    /\ endpoint = "llava.stream_generator" =>
          \A i \in 1..Len(body) :
             IsRaw(body[i]) =>
                \E k \in FramesOfLine(i) : frames[k].data = Frame(Strip(body[i].text))
    /\ endpoint \in LineOriented =>
          \A i \in 1..pos :
             IsRaw(body[i]) => Contains(Join(full_response), Strip(body[i].text))
    /\ (endpoint = "llava.generate" /\ pc = "done" /\ worker = "ok") =>
          \A i \in DOMAIN Received :
             IsRaw(Received[i]) => Contains(full_text, Strip(Received[i].text))

\* C8: a fragment whose error_code is not 0 contributes no text to the
\* aggregate of generate (both variants) and chat, and the later lines are
\* processed as if it had not occurred.
C8_ErrorFragmentContributesNothing ==
    /\ endpoint \in LineOriented =>
          full_response = AggregateAll(SelectSeq(Processed, NotError))
    /\ (endpoint = "llava.generate" /\ pc = "done" /\ worker = "ok" /\ chunks # <<>>) =>
          full_text = LastText(SelectSeq(chunks[Len(chunks)], NotError)).text

\* C9: a fragment with error_code 0 and no text emits nothing: no frame in
\* stream_generator, nothing in the aggregate of generate and chat.
C9_AnomalyEmitsNothing ==
    /\ endpoint = "llava.stream_generator" =>
          \A i \in 1..Len(body) : IsAnomaly(body[i]) => FramesOfLine(i) = {}
    /\ endpoint \in LineOriented =>
          full_response = AggregateAll(SelectSeq(Processed, NotAnomaly))

\* C10: get_worker_address fails with the 503 "Failed to get worker address
\* from controller" error for a 2xx reply without the address field or with a
\* malformed body, as for transport failures and non-2xx replies; no other
\* kind of error leaves it.
C10_LocatorRaisesOnly503 ==
    (registry \notin {"none", "address"}) =>
        located = HTTPException(503, "Failed to get worker address from controller")

\* C11: in the translating generate, a failure of translate_text does not
\* abort the request: it completes with the untranslated cleaned text.
C11_TranslationFailureDegrades ==
    (/\ pc = "done"
     /\ endpoint = "llava.generate"
     /\ translation = "failure")
        => /\ response.status = 200
           /\ response.generated_text = Strip(Remove(full_text, Template(prompt)))

\* C12: empty output is a failure: a successful response of generate carries
\* a non-empty generated_text, also when the aggregate is only the echoed
\* instruction template.
C12_SuccessIsNeverEmpty ==
    (/\ pc = "done"
     /\ endpoint \in {"main.generate", "llava.generate"}
     /\ response.status = 200)
        => response.generated_text # <<>>

\* the kinds of line C13 names: not JSON, JSON but not an object, an object
\* whose text is not a string, an object without error_code
NotJson(l) == l.kind = "raw"
NotObject(l) == l.kind = "number"
TextNotString(l) == l.kind = "object" /\ l.has_text /\ l.text_type # "str"
NoErrorCode(l) == l.kind = "object" /\ ~l.has_code

NotNamed(l) == ~(NotJson(l) \/ NotObject(l) \/ TextNotString(l) \/ NoErrorCode(l))
KeepsAggregate(l) == ~(NotObject(l) \/ TextNotString(l) \/ NoErrorCode(l))
KeepsFrames(l) == ~(NotObject(l) \/ NoErrorCode(l))

RECURSIVE RelayAll(_)
RelayAll(lines) ==
    IF lines = <<>> THEN <<>> ELSE RelayLine(Head(lines)) \o RelayAll(Tail(lines))

IsLineFrame(f) == f.site # "done"

\* the frames relayed from lines, without the number of the line
Relayed ==
    LET fs == SelectSeq(frames, IsLineFrame)
    IN  [k \in 1..Len(fs) |-> [site |-> fs[k].site, data |-> fs[k].data]]

\* every line of the body is gone through, and only the transport ends a relay
LoopsNeverAbort ==
    /\ (endpoint \in LineOriented /\ pc = "done" /\ worker = "ok") => pos = Len(body)
    /\ endpoint = "llava.stream_generator" =>
          /\ pos = Len(body)
          /\ (worker = "ok" /\ raised # NoException) =>
                raised.type \in {"ReadError", "ReadTimeout"}

\* C13 as stated: each of the named lines leaves the loops of
\* stream_generator, generate and chat running, and the outcome is the one of
\* the stream without that line.
C13_Original_OutcomeAsIfRemoved ==
    /\ LoopsNeverAbort
    /\ endpoint \in LineOriented =>
          full_response = AggregateAll(SelectSeq(Processed, NotNamed))
    /\ endpoint = "llava.stream_generator" =>
          Relayed = RelayAll(SelectSeq(body, NotNamed))

\* C13 (amended): no line aborts the loops of stream_generator, generate and
\* chat; a line that is JSON but not an object, an object without error_code
\* and, in generate and chat, an object whose text is not a string leave the
\* outcome as if the line had been removed, while a line that is not JSON
\* keeps its trimmed text and stream_generator still relays a text that is
\* not a string.
C13_MalformedLineOnlyLosesItself ==
    /\ LoopsNeverAbort
    /\ endpoint \in LineOriented =>
          /\ full_response = AggregateAll(SelectSeq(Processed, KeepsAggregate))
          /\ \A i \in 1..pos :
                NotJson(body[i]) => Contains(Join(full_response), Strip(body[i].text))
    /\ endpoint = "llava.stream_generator" =>
          /\ Relayed = RelayAll(SelectSeq(body, KeepsFrames))
          /\ \A i \in 1..Len(body) :
                (NotJson(body[i]) \/ (IsText(body[i]) /\ TextNotString(body[i])))
                    => FramesOfLine(i) # {}

C13_Witness ==
    /\ endpoint \in LineOriented
    /\ pc = "done"
    /\ response.status = 200
    /\ \E i, j \in 1..Len(body) :
          /\ i < j
          /\ NotObject(body[i]) \/ TextNotString(body[i]) \/ NoErrorCode(body[i])
          /\ IsText(body[j]) /\ body[j].text_type = "str"

IsTextString(l) == IsText(l) /\ l.text_type = "str"
Contributing(l) == IsTextString(l) \/ IsRaw(l)

RECURSIVE TrimmedTexts(_)
TrimmedTexts(lines) ==
    IF lines = <<>> THEN <<>> ELSE <<Strip(Head(lines).text)>> \o TrimmedTexts(Tail(lines))

\* C14: every success fragment that carries text contributes that text to
\* the output exactly once and in arrival order, none is dropped: in the line
\* loop of generate and chat, and in the final-chunk loop of the translating
\* generate.
C14_EveryTextContributesOnce ==
    /\ endpoint \in LineOriented =>
          full_response = TrimmedTexts(SelectSeq(Processed, Contributing))
    /\ (endpoint = "llava.generate" /\ pc = "done" /\ worker = "ok") =>
          \A i \in DOMAIN Received :
             IsTextString(Received[i]) => Contains(full_text, Received[i].text)

\* the place of a step in the pipeline of section 5
Rank(step) ==
    CASE step = "process_image" -> 1
      [] step = "get_worker_address" -> 2
      [] step = "build_payload" -> 3
      [] step = "worker_post" -> 4
      [] OTHER -> 5

Count(step) == Cardinality({i \in DOMAIN trace : trace[i] = step})

\* C15: in generate and chat the steps come in the order image
\* normalization, registry lookup, payload, worker request; no lookup is made
\* before every image of the request is normalized.
C15_PipelineOrder ==
    endpoint \in Aggregating =>
        /\ \A i, j \in DOMAIN trace : i < j => Rank(trace[i]) <= Rank(trace[j])
        /\ Count("get_worker_address") > 0 => images_left = 0

\* C16 as stated: every request makes exactly one registry lookup; the
\* worker is contacted at most once, after that lookup has succeeded; a
\* failed lookup ends the request in failure with no request to a worker.
C16_Original_ExactlyOneLookup ==
    endpoint \in Aggregating =>
        /\ pc = "done" => Count("get_worker_address") = 1
        /\ Count("get_worker_address") <= 1
        /\ Count("worker_post") <= 1
        /\ \A j \in DOMAIN trace :
              trace[j] = "worker_post" =>
                 /\ registry = "address"
                 /\ \E i \in 1..(j - 1) : trace[i] = "get_worker_address"
        /\ registry \notin {"none", "address"} =>
              /\ pc = "done"
              /\ response.status \notin {0, 200}
              /\ Count("worker_post") = 0

\* C16 (amended): every request makes at most one registry lookup, and
\* exactly one unless generate fails in process_image before reaching it; the
\* worker is contacted at most once, after that lookup has succeeded; a
\* failed lookup ends the request in failure with no request to a worker.
C16_OneLookupBeforeWorker ==
    endpoint \in Aggregating =>
        /\ Count("get_worker_address") <= 1
        /\ (pc = "done" /\ Count("get_worker_address") = 0) =>
              /\ endpoint # "main.chat"
              /\ trace = <<"process_image">>
              /\ response.status = 500
        /\ Count("worker_post") <= 1
        /\ \A j \in DOMAIN trace :
              trace[j] = "worker_post" =>
                 /\ registry = "address"
                 /\ \E i \in 1..(j - 1) : trace[i] = "get_worker_address"
        /\ registry \notin {"none", "address"} =>
              /\ pc = "done"
              /\ response.status \notin {0, 200}
              /\ Count("worker_post") = 0

C16_Witness ==
    /\ endpoint \in Aggregating
    /\ pc = "done"
    /\ registry = "status_500"
    /\ Count("get_worker_address") = 1
    /\ Count("worker_post") = 0
    /\ response.status = 500

\* C17: the generated_text returned by generate (main.py) never ends with
\* the suffix ", "error_code": 0} nor with a double quote.
C17_TrailingSuffixTrimmed ==
    (/\ pc = "done"
     /\ endpoint = "main.generate"
     /\ response.status = 200)
        => /\ ~EndsWith(response.generated_text, ErrorCodeSuffix)
           /\ ~EndsWith(response.generated_text, <<Quote>>)

\* the places where the closing instruction marker occurs in s
MarkerAt(s) == {i \in 0..Len(s) : MatchAt(s, InstMarker, i)}

Payload(data) == SubSeq(data, Len(DataPrefix) + 1, Len(data) - Len(FrameEnd))

\* C19: every frame of stream_generator is one event data: <payload>
\* followed by a blank line, its payload has no line break, and the payload
\* [DONE] appears in the final frame only.
C19_WellFormedEventStream ==
    endpoint = "llava.stream_generator" =>
        \A k \in DOMAIN frames :
           LET data == frames[k].data
           IN  /\ Len(data) >= Len(DataPrefix) + Len(FrameEnd)
               /\ MatchAt(data, DataPrefix, 0)
               /\ EndsWith(data, FrameEnd)
               /\ \A c \in DOMAIN Payload(data) : Payload(data)[c] \notin {"\n", "\r"}
               /\ Payload(data) = DoneText => (k = Len(frames) /\ pc = "done")

\* C20: a request completes only if at least one fragment was emitted or
\* aggregated: a relay whose stream yields no text, raw or error frame does
\* not complete with the sentinel alone, and no aggregate is empty on success.
C20_CompletedNeedsAFragment ==
    /\ (endpoint = "llava.stream_generator" /\ pc = "done" /\ raised = NoException) =>
          \E k \in DOMAIN frames : frames[k].site # "done"
    /\ (endpoint \in LineOriented /\ pc = "done" /\ response.status = 200) =>
          Join(full_response) # <<>>
    /\ (endpoint = "llava.generate" /\ pc = "done" /\ response.status = 200) =>
          full_text # <<>>

====
